---- MODULE Spec2Model ----
(***************************************************************************)
(* Model of the simulation framework of geoffsee/simulator-gen:            *)
(*   - EventQueue          (framework/events.ts)                           *)
(*   - BaseStateMachine    (framework/state-machine.ts)                    *)
(*   - SimulationEngine    (framework/simulation-engine.ts)                *)
(* Every public operation is one action.  An action computes the whole     *)
(* synchronous call, including every callback and every re-entrant call    *)
(* made from a callback, with the recursive operators below.  Exceptions   *)
(* are the flag exc of the record the operators pass along; try/catch      *)
(* resets it.                                                              *)
(***************************************************************************)
EXTENDS Integers, Sequences, FiniteSets, TLC

\* ------------------------------------------------------------------ bounds
MaxHist == 3     \* longest stateHistory explored
MaxQueue == 1    \* longest pending queue an external queueEvent may build
MaxTime == 2     \* the wall clock runs 0..MaxTime
MaxLeaked == 1   \* most outstanding timers the engine has lost track of
MaxCap == 2      \* largest maxEvents option explored
MaxHandlers == 3 \* most handlers registered on a queue used on its own
MaxPending == 2  \* longest queue of an EventQueue used on its own
MaxCount == 3    \* largest eventCount explored
MaxIds == 11     \* largest value of the id counter explored
MaxCreated == 3  \* most events constructed

\* ------------------------------------------------------- domain of values
\* TState is a numeric enum: 0 is a falsy state value.
States == {0, 1, 2}

\* String(state), as used for the keys of the transition table.
String(s) == ToString(s)

\* JavaScript truthiness of a state value (if (initialState) ...).
Truthy(s) == s # 0

\* Transition tables (Record<string, string[]>); a key may be missing.
TableChain == [k \in {"0", "1", "2"} |->
                 IF k = "0" THEN <<"1">> ELSE IF k = "1" THEN <<"2">> ELSE <<>>]
TableCycle == [k \in {"0", "1", "2"} |->
                 IF k = "0" THEN <<"1", "2">>
                 ELSE IF k = "1" THEN <<"2", "1">> ELSE <<"0">>]
TablePartial == [k \in {"1", "2"} |->
                 IF k = "1" THEN <<"0", "2">> ELSE <<"1">>]
Tables == {TableChain, TableCycle, TablePartial}

\* Event types; an event is identified by its type.
EventTypes == {"to0", "to1", "to2", "boom", "goBoom", "chain", "hStop", "hPause"}
\* Events the clients of the state machine queue and process directly.
SmEvents == {"to1", "to2", "boom", "chain"}
\* Events the clients of the engine inject.
InjectedEvents == {"boom", "chain", "hStop"}

\* Event types delivered to an EventQueue used on its own.
QueueEvents == {"a", "b"}

\* Handlers registered on such a queue: hOk returns, hThrow throws, hEnq
\* enqueues an event "b" when it is given an event "a".
HandlerNames == {"hOk", "hThrow", "hEnq"}

\* Handlers of a queue whose handlers deregister themselves: hOff calls
\* off(event.type, hOff) and offAny(hOff) when it is invoked.
SelfOffHandlers == {"hOk", "hOff"}

\* handlers = new Map(): no handler for any type.
NoHandlers == [t \in QueueEvents |-> << >>]

Cmd(c, s, e) == [c |-> c, s |-> s, e |-> e]

\* ---------------------------------------------- the legal review domain
\* enum LegalPhase, numbered in declaration order from 1: like the non-empty
\* strings of the source, every phase is a truthy state value.
LegalPhase ==
  [Initial |-> 1, ConflictsCheck |-> 2, FileIntake |-> 3, IssueSpotting |-> 4,
   Research |-> 5, Analysis |-> 6, Strategy |-> 7, Drafting |-> 8,
   ClientComms |-> 9, Waiting |-> 10, Review |-> 11, Complete |-> 12]

LegalPhases == { LegalPhase[n] : n \in DOMAIN LegalPhase }

\* The row of a transition table: the keys of the listed phases.
Row(phases) == [i \in DOMAIN phases |-> String(phases[i])]

\* allowedTransitions of LegalReviewStateMachine.
LegalTransitions ==
  LET P == LegalPhase
      row == [p \in LegalPhases |->
               CASE p = P.Initial -> << P.ConflictsCheck, P.FileIntake >>
                 [] p = P.ConflictsCheck -> << P.FileIntake, P.Waiting >>
                 [] p = P.FileIntake -> << P.IssueSpotting, P.Research >>
                 [] p = P.IssueSpotting -> << P.Research, P.Analysis >>
                 [] p = P.Research -> << P.Analysis, P.Strategy >>
                 [] p = P.Analysis -> << P.Strategy, P.Drafting, P.ClientComms >>
                 [] p = P.Strategy -> << P.Drafting, P.ClientComms, P.Review >>
                 [] p = P.Drafting -> << P.ClientComms, P.Review, P.Waiting >>
                 [] p = P.ClientComms ->
                      << P.Analysis, P.Strategy, P.Review, P.Waiting >>
                 [] p = P.Waiting -> << P.ClientComms, P.Review, P.Drafting >>
                 [] p = P.Review -> << P.Complete, P.ClientComms, P.Drafting >>
                 [] OTHER -> << >>]
  IN [k \in { String(p) : p \in LegalPhases } |->
        Row(row[CHOOSE p \in LegalPhases : String(p) = k])]

\* enum LegalEventType.
LegalEventType ==
  [EmailReceived |-> "email_received", DocUploaded |-> "doc_uploaded",
   HearingSet |-> "hearing_set", OppositionMotion |-> "opposition_motion",
   ClientCall |-> "client_call", CourtNotice |-> "court_notice",
   PaymentIssue |-> "payment_issue", ConflictFlag |-> "conflict_flag",
   CalendarUpdate |-> "calendar_update"]

\* An email event carries one of the three bodies its generator picks from:
\*   1 "Can you clarify the indemnity language?"
\*   2 "Attaching the signed NDA and vendor SOW."
\*   3 "I think the date might be wrong - can you confirm?"
\* No other payload field decides what a handler does to the phase.
EmailEvents == << "email_received/1", "email_received/2", "email_received/3" >>

\* /question|clarify|unknown/i.test(body): only body 1 matches.
AsksQuestion(e) == e = EmailEvents[1]

\* LEGAL_EVENT_GENERATORS, each generator named by the type it returns.
LEGAL_EVENT_GENERATORS ==
  << LegalEventType.EmailReceived, LegalEventType.DocUploaded,
     LegalEventType.HearingSet, LegalEventType.OppositionMotion,
     LegalEventType.ClientCall, LegalEventType.CourtNotice,
     LegalEventType.PaymentIssue, LegalEventType.ConflictFlag,
     LegalEventType.CalendarUpdate >>

\* The random draws of one tick of the legal feed: r % 9 is the draw of
\* pick(generators), r \div 9 the draw of the generator's own pick(body).
LegalDraws == 0 .. (3 * Len(LEGAL_EVENT_GENERATORS) - 1)

\* The event generator g returns under the draw r.
Produce(g, r) ==
  IF g = LegalEventType.EmailReceived
  THEN EmailEvents[((r \div Len(LEGAL_EVENT_GENERATORS)) % Len(EmailEvents)) + 1]
  ELSE g

\* Every event LEGAL_EVENT_GENERATORS can produce.
LegalEvents ==
  { Produce(LEGAL_EVENT_GENERATORS[i], r) :
      i \in DOMAIN LEGAL_EVENT_GENERATORS, r \in LegalDraws }

\* LegalReviewStateMachine.processLegalEvent: the transition each handler
\* asks for (facts, tasks, issues and risk do not decide the phase).
LegalHandleScript(e) ==
  LET T == LegalEventType
      P == LegalPhase
  IN CASE e \in { EmailEvents[i] : i \in DOMAIN EmailEvents } ->
            IF AsksQuestion(e) THEN << Cmd("transition", P.ClientComms, "") >>
            ELSE << >>
       [] e = T.DocUploaded -> << Cmd("transition", P.IssueSpotting, "") >>
       [] e = T.HearingSet -> << Cmd("transition", P.Strategy, "") >>
       [] e = T.OppositionMotion -> << Cmd("transition", P.Research, "") >>
       [] e = T.ClientCall -> << Cmd("transition", P.Analysis, "") >>
       [] e = T.CourtNotice -> << Cmd("transition", P.Drafting, "") >>
       [] e = T.PaymentIssue -> << >>
       [] e = T.ConflictFlag -> << Cmd("transition", P.ConflictsCheck, "") >>
       [] e = T.CalendarUpdate -> << >>
       [] OTHER -> << >>

\* The domain behaviour handleEvent(event), one script per event type.
HandleScript(e) ==
  CASE e = "to0" -> << Cmd("transition", 0, "") >>
    [] e = "to1" -> << Cmd("transition", 1, "") >>
    [] e = "to2" -> << Cmd("transition", 2, "") >>
    [] e = "boom" -> << Cmd("throw", 0, "") >>
    [] e = "goBoom" -> << Cmd("transition", 1, ""), Cmd("throw", 0, "") >>
    [] e = "chain" -> << Cmd("queueEvent", 0, "to2"), Cmd("transition", 1, "") >>
    [] e = "hStop" -> << Cmd("stop", 0, "") >>
    [] e = "hPause" -> << Cmd("pause", 0, ""), Cmd("resume", 0, "") >>
    [] e \in LegalEvents -> LegalHandleScript(e)
    [] OTHER -> << >>

\* ------------------------------------------------------------- variables
VARIABLES
  allowedTransitions,   \* BaseStateMachine._allowedTransitions
  currentState,         \* BaseStateMachine._currentState
  stateHistory,         \* BaseStateMachine._stateHistory
  queue,                \* EventQueue.queue of the machine's _eventQueue
  handlers,             \* EventQueue.handlers: event type -> handlers
  globalHandlers,       \* EventQueue.globalHandlers
  status,               \* SimulationEngine._status
  timer,                \* SimulationEngine._timer: "null", "live" or "dead"
  leaked,               \* outstanding timers _timer no longer refers to
  eventCount,           \* SimulationEngine._eventCount
  startTime,            \* SimulationEngine._startTime: <<>> is null
  pausedTime,           \* SimulationEngine._pausedTime: <<>> is null
  totalPausedDuration,  \* SimulationEngine._totalPausedDuration
  options,              \* SimulationEngine._options (name of the option set)
  now,                  \* wall clock
  idCounter,            \* utils.ts: let _idCounter
  created,              \* the events constructed so far, oldest first
  log                   \* what the last operation did (observation only)

vars == << allowedTransitions, currentState, stateHistory, queue, handlers, globalHandlers, status, timer,
           leaked, eventCount, startTime, pausedTime, totalPausedDuration,
           options, now, idCounter, created, log >>

\* --------------------------------------------------------------- options
\* A generator is named by the event type it returns; "THROW" is a generator
\* that throws.
Throwing == "THROW"

NoCallbacks == [onStart |-> << >>, onStop |-> << >>, onPause |-> << >>,
                onResume |-> << >>, onTick |-> << >>, onEventProcessed |-> << >>]

\* The option sets start() is called with.  callbacks: the callbacks that are
\* supplied; scripts: what each of them does.
Preset(name) ==
  CASE name = "default" ->
         [eventGenerators |-> << >>, callbacks |-> {}, scripts |-> NoCallbacks]
    [] name = "gens" ->
         [eventGenerators |-> << "to1", "boom", "goBoom" >>,
          callbacks |-> DOMAIN NoCallbacks, scripts |-> NoCallbacks]
    [] name = "faulty" ->
         [eventGenerators |-> << Throwing, "to1" >>,
          callbacks |-> DOMAIN NoCallbacks, scripts |-> NoCallbacks]
    [] name = "watch" ->
         [eventGenerators |-> << >>,
          callbacks |-> DOMAIN NoCallbacks, scripts |-> NoCallbacks]
    [] name = "reenter" ->
         [eventGenerators |-> << "to1", "hStop", "hPause" >>,
          callbacks |-> DOMAIN NoCallbacks,
          scripts |-> [NoCallbacks EXCEPT
                         !.onTick = << Cmd("pause", 0, ""), Cmd("resume", 0, "") >>]]
    [] name = "startStops" ->
         [eventGenerators |-> << >>,
          callbacks |-> DOMAIN NoCallbacks,
          scripts |-> [NoCallbacks EXCEPT !.onStart = << Cmd("stop", 0, "") >>]]
    [] name = "startPauses" ->
         [eventGenerators |-> << >>,
          callbacks |-> DOMAIN NoCallbacks,
          scripts |-> [NoCallbacks EXCEPT !.onStart = << Cmd("pause", 0, "") >>]]
    [] name = "tickStops" ->
         [eventGenerators |-> << "to1" >>,
          callbacks |-> DOMAIN NoCallbacks,
          scripts |-> [NoCallbacks EXCEPT !.onTick = << Cmd("stop", 0, "") >>]]
    [] name = "processedPauses" ->
         [eventGenerators |-> << "to1" >>,
          callbacks |-> DOMAIN NoCallbacks,
          scripts |-> [NoCallbacks EXCEPT
                         !.onEventProcessed = << Cmd("pause", 0, "") >>]]
    [] name = "processedReenters" ->
         [eventGenerators |-> << "to1" >>,
          callbacks |-> DOMAIN NoCallbacks,
          scripts |-> [NoCallbacks EXCEPT
                         !.onEventProcessed = << Cmd("pause", 0, ""),
                                                 Cmd("resume", 0, "") >>]]
    [] name = "legal" ->
         [eventGenerators |-> LEGAL_EVENT_GENERATORS,
          callbacks |-> {"onEventProcessed"}, scripts |-> NoCallbacks]
    [] OTHER ->
         [eventGenerators |-> << >>, callbacks |-> {}, scripts |-> NoCallbacks]

PresetNames == {"default", "gens", "faulty", "watch", "reenter",
                "startStops", "startPauses", "tickStops", "processedPauses",
                "processedReenters", "legal"}

\* SimulationOptions as start() receives them: without a cap and with one.
OptionSets == [preset : {"gens", "faulty", "reenter"}, maxEvents : {0, MaxCap}]

\* Option sets with callbacks and no generators, for the time accounting.
TimeOptionSets == [preset : {"default", "watch", "startStops", "startPauses"},
                   maxEvents : {0}]

\* Option sets with a cap and at least one generator that never throws.
LiveOptionSets == [preset : {"gens", "faulty"}, maxEvents : 1..MaxCap]

\* Option sets with and without generators, with and without callbacks.
TickOptionSets == [preset : {"default", "watch", "gens", "faulty", "reenter",
                             "tickStops", "processedPauses"},
                   maxEvents : {0, MaxCap}]

\* Option sets with generators, with callbacks that pause and resume during
\* a tick, without a cap and with every cap up to MaxCap.
CappedOptionSets == [preset : {"gens", "faulty", "reenter", "processedPauses",
                               "processedReenters"},
                     maxEvents : 0..MaxCap]

\* The options of the legal feed: the generators and onEventProcessed.
LegalOptions == [preset |-> "legal", maxEvents |-> 0]

\* _options = {} before the first start().
EmptyOptions == [preset |-> "default", maxEvents |-> 0]

\* ------------------------------------------------------------ the record
\* The program state as one record, plus exc (an exception is propagating).
World == [allowedTransitions |-> allowedTransitions, currentState |-> currentState,
          stateHistory |-> stateHistory, queue |-> queue, handlers |-> handlers,
          globalHandlers |-> globalHandlers, status |-> status,
          timer |-> timer, leaked |-> leaked, eventCount |-> eventCount,
          startTime |-> startTime, pausedTime |-> pausedTime,
          totalPausedDuration |-> totalPausedDuration, options |-> options,
          now |-> now, exc |-> FALSE, log |-> log]

NoCalls == [onStart |-> 0, onStop |-> 0, onPause |-> 0, onResume |-> 0,
            onTick |-> 0, onEventProcessed |-> 0]

\* The log of an operation that has just been entered.
FreshLog(op, s, e) ==
  [op |-> op, s |-> s, e |-> e, ret |-> "none", escaped |-> FALSE,
   handled |-> << >>, processed |-> << >>, delivered |-> << >>,
   enq |-> << >>, invalid |-> << >>, changes |-> << >>,
   returns |-> << >>, calls |-> NoCalls, gen |-> 0, ticks |-> 0,
   genThrew |-> 0, statusTrace |-> << status >>, restarted |-> FALSE,
   scheduled |-> 0, h |-> ""]

Enter(op, s, e) == [World EXCEPT !.log = FreshLog(op, s, e)]

\* The operation is over: an exception still propagating has escaped it.
Install(w) ==
  /\ allowedTransitions' = w.allowedTransitions
  /\ currentState' = w.currentState
  /\ stateHistory' = w.stateHistory
  /\ queue' = w.queue
  /\ handlers' = w.handlers
  /\ globalHandlers' = w.globalHandlers
  /\ status' = w.status
  /\ timer' = w.timer
  /\ leaked' = w.leaked
  /\ eventCount' = w.eventCount
  /\ startTime' = w.startTime
  /\ pausedTime' = w.pausedTime
  /\ totalPausedDuration' = w.totalPausedDuration
  /\ options' = w.options
  /\ now' = w.now
  /\ UNCHANGED << idCounter, created >>
  /\ log' = [w.log EXCEPT !.escaped = w.exc]

\* The model explores only results within the bounds.
InBounds(w) ==
  /\ Len(w.stateHistory) <= MaxHist
  /\ Len(w.queue) <= MaxQueue
  /\ w.leaked <= MaxLeaked
  /\ w.eventCount <= MaxCount
  /\ w.now <= MaxTime

RECURSIVE RunScript(_, _), Exec(_, _), DeliverAll(_, _, _, _), ProcessAll(_)
RECURSIVE Transition(_, _), ForceTransition(_, _), ProcessEvent(_, _)
RECURSIVE Start(_, _), Stop(_), Pause(_), Resume(_), ScheduleNextEvent(_)
RECURSIVE SmReset(_), Reset(_), InjectEvent(_, _)

\* try { ... } catch (error) { log }: the exception stops here.
Catch(w) == [w EXCEPT !.exc = FALSE]

Throw(w) == [w EXCEPT !.exc = TRUE]

\* Statement sequencing: the world v a call leaves is computed once and the
\* rest of the body, F, runs in it.
With(v, F(_)) == CHOOSE x \in { F(y) : y \in { v } } : TRUE

\* The same, when an exception thrown by the call leaves the body at once.
AndThen(v, F(_)) ==
  CHOOSE x \in { IF y.exc THEN y ELSE F(y) : y \in { v } } : TRUE

\* ------------------------------------------------------------ EventQueue
Enqueue(w, e) ==
  [w EXCEPT !.queue = Append(@, e), !.log.enq = Append(@, e)]

\* this.handlers.get(eventType) ?? []
TypeHandlers(w, e) ==
  IF e \in DOMAIN w.handlers THEN w.handlers[e] ELSE << >>

GlobalHandlers(w) == w.globalHandlers

\* Mutant: on() ignores a handler that is already registered for the type.
OnOnce(w, t, h) ==
  IF \E i \in 1..Len(w.handlers[t]) : w.handlers[t][i] = h THEN w
  ELSE [w EXCEPT !.handlers[t] = Append(@, h)]

\* on(eventType, handler): handlers.get(eventType).push(handler)
On(w, t, h) == [w EXCEPT !.handlers[t] = Append(@, h)]

\* onAny(handler): globalHandlers.push(handler)
OnAny(w, h) == [w EXCEPT !.globalHandlers = Append(@, h)]

\* index = list.indexOf(h); if (index !== -1) list.splice(index, 1)
RemoveFirst(list, h) ==
  LET found == { i \in 1..Len(list) : list[i] = h }
  IN IF found = {} THEN list
     ELSE LET index == CHOOSE i \in found : \A j \in found : i <= j
          IN SubSeq(list, 1, index - 1) \o SubSeq(list, index + 1, Len(list))

Off(w, t, h) == [w EXCEPT !.handlers[t] = RemoveFirst(@, h)]

OffAny(w, h) == [w EXCEPT !.globalHandlers = RemoveFirst(@, h)]

\* handler(event): the machine's own handler, registered by
\* setupEventHandlers, is (event) => this.processEvent(event).
CallHandler(w, h, e) ==
  CASE h = "processEvent" ->
         ProcessEvent([w EXCEPT !.log.delivered = Append(@, << h, e >>)], e)
    [] h = "hThrow" ->
         Throw([w EXCEPT !.log.delivered = Append(@, << h, e >>)])
    [] h = "hOff" ->
         OffAny(Off([w EXCEPT !.log.delivered = Append(@, << h, e >>)], e, h), h)
    [] h = "hEnq" /\ e = "a" ->
         [w EXCEPT !.log.delivered = Append(@, << h, e >>),
                   !.queue = Append(@, "b"), !.log.enq = Append(@, "b")]
    [] OTHER -> [w EXCEPT !.log.delivered = Append(@, << h, e >>)]

\* The array a loop of process() iterates: the list of the event's type or
\* the global list, as it is now (off and offAny splice it in place).
Registered(w, list, e) ==
  IF list = "global" THEN GlobalHandlers(w) ELSE TypeHandlers(w, e)

\* Mutant: a handler's error ends the delivery and reaches the caller.
DeliverAllNoCatch(w, list, i, e) ==
  IF i > Len(Registered(w, list, e)) THEN w
  ELSE AndThen(CallHandler(w, Registered(w, list, e)[i], e),
               LAMBDA v : DeliverAll(v, list, i + 1, e))

\* for (const handler of list) { try { handler(event) } catch { log } }: the
\* array iterator reads list[i - 1] of the array as it is at each step, from
\* the step i on.
DeliverAll(w, list, i, e) ==
  IF i > Len(Registered(w, list, e)) THEN w
  ELSE With(Catch(CallHandler(w, Registered(w, list, e)[i], e)),
            LAMBDA v : DeliverAll(v, list, i + 1, e))

\* Mutant: the global handlers are called before those of the type.
ProcessGlobalFirst(w, e) ==
  AndThen(DeliverAll([w EXCEPT !.log.processed = Append(@, e)], "global", 1, e),
          LAMBDA v : DeliverAll(v, "type", 1, e))

\* process(event): the handlers of the event's type, then the global ones.
Process(w, e) ==
  AndThen(DeliverAll([w EXCEPT !.log.processed = Append(@, e)], "type", 1, e),
          LAMBDA v : DeliverAll(v, "global", 1, e))

\* Mutant: the drain handles the events present when it starts and leaves
\* the events queued meanwhile.
RECURSIVE ProcessFirst(_, _)
ProcessFirst(w, n) ==
  IF n = 0 \/ w.queue = << >> THEN w
  ELSE AndThen(Process([w EXCEPT !.queue = Tail(@)], Head(w.queue)),
               LAMBDA v : ProcessFirst(v, n - 1))

ProcessAllSnapshot(w) == ProcessFirst(w, Len(w.queue))

\* get size(): this.queue.length
Size(w) == Len(w.queue)

\* get isEmpty(): this.queue.length === 0
IsEmpty(w) == Len(w.queue) = 0

\* dequeue(): this.queue.shift(), undefined ("none") on an empty queue.
Dequeue(w) ==
  IF w.queue = << >> THEN [w EXCEPT !.log.ret = "none"]
  ELSE [w EXCEPT !.queue = Tail(@), !.log.ret = Head(w.queue)]

\* Mutant: the drain takes the newest event first.
ProcessAllNewestFirst(w) ==
  IF IsEmpty(w) THEN w
  ELSE AndThen(Process([w EXCEPT !.queue = SubSeq(@, 1, Len(@) - 1)],
                       w.queue[Len(w.queue)]),
               ProcessAll)

\* Mutant: the drain processes the oldest event and discards the others.
ProcessAllDropping(w) ==
  IF IsEmpty(w) THEN w
  ELSE AndThen(Process([w EXCEPT !.queue = << >>], Head(w.queue)), ProcessAll)

\* while (!this.isEmpty) { const event = this.dequeue(); this.process(event) }
ProcessAll(w) ==
  IF IsEmpty(w) THEN w
  ELSE AndThen(Process([w EXCEPT !.queue = Tail(@)], Head(w.queue)), ProcessAll)

\* clear(): this.queue = []
Clear(w) == [w EXCEPT !.queue = << >>]

\* clearHandlers(): handlers.clear(); globalHandlers = []
ClearHandlers(w) == [w EXCEPT !.handlers = NoHandlers, !.globalHandlers = << >>]

\* ------------------------------------------------------ BaseStateMachine
\* Mutant: the lookup is made the wrong way round.
CanTransitionReversed(w, newState) ==
  LET currentStateKey == String(w.currentState)
      newStateKey == String(newState)
      allowed == IF newStateKey \in DOMAIN w.allowedTransitions
                 THEN w.allowedTransitions[newStateKey] ELSE << >>
  IN \E i \in 1..Len(allowed) : allowed[i] = currentStateKey

\* Mutant: staying in the current state is always allowed.
CanTransitionOrStay(w, newState) ==
  LET currentStateKey == String(w.currentState)
      newStateKey == String(newState)
      allowed == IF currentStateKey \in DOMAIN w.allowedTransitions
                 THEN w.allowedTransitions[currentStateKey] ELSE << >>
  IN \/ newState = w.currentState
     \/ \E i \in 1..Len(allowed) : allowed[i] = newStateKey

\* Mutant: every transition is allowed.
CanTransitionAlways(w, newState) == TRUE

CanTransition(w, newState) ==
  LET currentStateKey == String(w.currentState)
      newStateKey == String(newState)
      allowed == IF currentStateKey \in DOMAIN w.allowedTransitions
                 THEN w.allowedTransitions[currentStateKey] ELSE << >>
  IN \E i \in 1..Len(allowed) : allowed[i] = newStateKey

OnInvalidTransition(w, from, to) ==
  [w EXCEPT !.log.invalid = Append(@, << from, to >>)]

OnStateChange(w, from, to) ==
  [w EXCEPT !.log.changes = Append(@, << from, to >>)]

ProcessPendingEvents(w) == ProcessAll(w)

\* Mutant: the new entry takes the place of the last one.
SetStateInPlace(w, newState) ==
  [w EXCEPT !.currentState = newState,
            !.stateHistory = SubSeq(@, 1, Len(@) - 1) \o
                               << [state |-> newState, timestamp |-> w.now] >>]

\* this._currentState = newState; this._stateHistory.push({state, timestamp})
SetState(w, newState) ==
  [w EXCEPT !.currentState = newState,
            !.stateHistory = Append(@, [state |-> newState, timestamp |-> w.now])]

\* Observation: what a transition that returns has left behind.  owed: the
\* events pending at the state change, then those queued since; handled: the
\* events the domain behaviour has received since; applied / recorded: the
\* state changes made and the history entries added by them.
Returned(w0, w) ==
  [w EXCEPT !.log.returns = Append(@,
     [left |-> w.queue,
      owed |-> w0.queue \o SubSeq(w.log.enq, Len(w0.log.enq) + 1, Len(w.log.enq)),
      handled |-> SubSeq(w.log.handled, Len(w0.log.handled) + 1, Len(w.log.handled)),
      applied |-> Len(w.log.changes) - Len(w0.log.changes),
      recorded |-> Len(w.stateHistory) - Len(w0.stateHistory)])]

\* The part of transition() after the check, which forceTransition() repeats.
ApplyTransition(w, newState) ==
  AndThen(OnStateChange(SetState(w, newState), w.currentState, newState),
          LAMBDA w1 : AndThen(ProcessPendingEvents(w1),
                              LAMBDA w2 : Returned(w1, w2)))

\* Mutant: a refused transition still processes the pending events.
TransitionDrainingOnFailure(w, newState) ==
  IF ~CanTransition(w, newState)
  THEN AndThen(ProcessPendingEvents(OnInvalidTransition(w, w.currentState, newState)),
               LAMBDA w1 : [w1 EXCEPT !.log.ret = "false"])
  ELSE AndThen(ApplyTransition(w, newState),
               LAMBDA w1 : [w1 EXCEPT !.log.ret = "true"])

Transition(w, newState) ==
  IF ~CanTransition(w, newState)
  THEN [OnInvalidTransition(w, w.currentState, newState) EXCEPT !.log.ret = "false"]
  ELSE AndThen(ApplyTransition(w, newState),
               LAMBDA w1 : [w1 EXCEPT !.log.ret = "true"])

\* Mutant: forceTransition leaves the pending events in the queue.
ForceTransitionWithoutDrain(w, newState) ==
  OnStateChange(SetState(w, newState), w.currentState, newState)

ForceTransition(w, newState) == ApplyTransition(w, newState)

QueueEvent(w, e) == Enqueue(w, e)

HandleEvent(w, e) ==
  RunScript([w EXCEPT !.log.handled = Append(@, e)], HandleScript(e))

\* Mutant: processEvent lets the handler's error through.
ProcessEventNoCatch(w, e) == HandleEvent(w, e)

\* try { this.handleEvent(event) } catch (error) { log }
ProcessEvent(w, e) == Catch(HandleEvent(w, e))

SmReset(w) ==
  LET initialState == w.stateHistory[1].state IN
  IF Truthy(initialState)
  THEN AndThen(ForceTransition(w, initialState),
               LAMBDA w1 : [w1 EXCEPT !.stateHistory = SubSeq(@, 1, 1)])
  ELSE w

\* ------------------------------------------------------ SimulationEngine
\* this._options.<name>?.()
Callback(w, name) ==
  IF name \in Preset(w.options.preset).callbacks
  THEN RunScript([w EXCEPT !.log.calls[name] = @ + 1],
                 Preset(w.options.preset).scripts[name])
  ELSE w

SetStatus(w, s) ==
  [w EXCEPT !.status = s, !.log.statusTrace = Append(@, s)]

\* if (this._timer) { clearTimeout(this._timer); this._timer = null }
ClearTimer(w) ==
  IF w.timer # "null" THEN [w EXCEPT !.timer = "null"] ELSE w

\* this._timer = setTimeout(...): a timer _timer referred to stays scheduled.
SetTimer(w) ==
  [w EXCEPT !.leaked = IF w.timer = "live" THEN @ + 1 ELSE @,
            !.timer = "live",
            !.log.scheduled = @ + 1]

\* Timers scheduled, neither fired nor cancelled.
Outstanding(w) == w.leaked + (IF w.timer = "live" THEN 1 ELSE 0)

\* Mutant: stop() without its check for a stopped engine.
StopUnguarded(w) ==
  Callback(SetStatus(ClearTimer(w), "stopped"), "onStop")

\* Mutant: stop() also resets the state machine.
StopResettingMachine(w) ==
  IF w.status = "stopped" THEN w
  ELSE SmReset(Callback(SetStatus(ClearTimer(w), "stopped"), "onStop"))

Stop(w) ==
  IF w.status = "stopped" THEN w
  ELSE Callback(SetStatus(ClearTimer(w), "stopped"), "onStop")

Pause(w) ==
  IF w.status # "running" THEN w
  ELSE Callback([SetStatus(ClearTimer(w), "paused") EXCEPT
                   !.pausedTime = << w.now >>], "onPause")

\* Mutant: _scheduleNextEvent without its check of the event cap.
ScheduleNextEventUncapped(w) ==
  IF w.status # "running" THEN w ELSE SetTimer(w)

\* Mutant: _scheduleNextEvent without its status check.
ScheduleNextEventUnguarded(w) ==
  IF w.options.maxEvents > 0 /\ w.eventCount >= w.options.maxEvents
  THEN Stop(w)
  ELSE SetTimer(w)

ScheduleNextEvent(w) ==
  IF w.status # "running" THEN w
  ELSE IF w.options.maxEvents > 0 /\ w.eventCount >= w.options.maxEvents
       THEN Stop(w)
       ELSE SetTimer(w)

Resume(w) ==
  IF w.status # "paused" THEN w
  ELSE LET w1 == IF w.pausedTime # << >>
                 THEN [w EXCEPT !.totalPausedDuration = @ + (w.now - w.pausedTime[1]),
                                !.pausedTime = << >>]
                 ELSE w
       IN AndThen(Callback(SetStatus(w1, "running"), "onResume"),
                  ScheduleNextEvent)

\* Mutant: start() without its check for a running engine.
StartUnguarded(w, opts) ==
  LET w1 == [SetStatus([w EXCEPT !.options = opts], "running") EXCEPT
               !.eventCount = 0,
               !.startTime = << w.now >>,
               !.totalPausedDuration = 0,
               !.pausedTime = << >>,
               !.log.restarted = TRUE]
  IN AndThen(Callback(w1, "onStart"), ScheduleNextEvent)

\* Mutant: start() schedules the first tick before it invokes onStart.
StartSchedulingFirst(w, opts) ==
  IF w.status = "running" THEN w
  ELSE LET w1 == [SetStatus([w EXCEPT !.options = opts], "running") EXCEPT
                    !.eventCount = 0,
                    !.startTime = << w.now >>,
                    !.totalPausedDuration = 0,
                    !.pausedTime = << >>,
                    !.log.restarted = TRUE]
       IN With(ScheduleNextEvent(w1), LAMBDA v : Callback(v, "onStart"))

Start(w, opts) ==
  IF w.status = "running" THEN w
  ELSE LET w1 == [SetStatus([w EXCEPT !.options = opts], "running") EXCEPT
                    !.eventCount = 0,
                    !.startTime = << w.now >>,
                    !.totalPausedDuration = 0,
                    !.pausedTime = << >>,
                    !.log.restarted = TRUE]
       IN AndThen(Callback(w1, "onStart"), ScheduleNextEvent)

\* Mutant: _processEvent without its count.
EngineProcessEventUncounted(w, e) ==
  Catch(AndThen(ProcessEvent(w, e),
                LAMBDA w1 : Callback(w1, "onEventProcessed")))

\* _processEvent: try { processEvent; _eventCount++; onEventProcessed } catch
EngineProcessEvent(w, e) ==
  Catch(AndThen(ProcessEvent(w, e),
                LAMBDA w1 : Callback([w1 EXCEPT !.eventCount = @ + 1],
                                     "onEventProcessed")))

\* Mutant: injectEvent ignored unless the engine is Running.
InjectEventWhenRunning(w, e) ==
  IF w.status = "running" THEN EngineProcessEvent(w, e) ELSE w

InjectEvent(w, e) == EngineProcessEvent(w, e)

\* pick(arr): arr[Math.floor(Math.random() * arr.length)], r the random draw.
RandomDraws == {0, 1, 2}

Pick(arr, r) == arr[(r % Len(arr)) + 1]

\* const event = generator(): a throwing generator throws out of tick().
Generate(w, g, r) ==
  IF g = Throwing
  THEN Throw([w EXCEPT !.log.gen = @ + 1, !.log.genThrew = @ + 1])
  ELSE EngineProcessEvent([w EXCEPT !.log.gen = @ + 1], Produce(g, r))

\* if (generators.length > 0) { const generator = pick(generators); ... }
GenerateOne(w, r) ==
  LET gens == Preset(w.options.preset).eventGenerators
  IN IF Len(gens) > 0 THEN Generate(w, Pick(gens, r), r) ELSE w

\* Mutant: onTick is called only when an event is about to be generated.
TickBodyOnTickWithEvent(w, r) ==
  IF Len(Preset(w.options.preset).eventGenerators) > 0
  THEN AndThen(Callback([w EXCEPT !.log.ticks = @ + 1], "onTick"),
               LAMBDA w1 : GenerateOne(w1, r))
  ELSE [w EXCEPT !.log.ticks = @ + 1]

\* The body of tick() under its status check.
TickBody(w, r) ==
  AndThen(Callback([w EXCEPT !.log.ticks = @ + 1], "onTick"),
          LAMBDA w1 : GenerateOne(w1, r))

\* Mutant: tick() without its status check.
TickUnguarded(w, r) == TickBody(w, r)

Tick(w, r) == IF w.status = "running" THEN TickBody(w, r) ELSE w

\* Mutant: the timer callback does the work of a tick whatever the status.
TimerCallbackUnguarded(w, r) ==
  AndThen(TickBody(w, r), ScheduleNextEvent)

\* The setTimeout callback of _scheduleNextEvent.
TimerCallback(w, r) ==
  IF w.status = "running"
  THEN AndThen(Tick(w, r), ScheduleNextEvent)
  ELSE w

Reset(w) ==
  AndThen(Stop(w),
          LAMBDA w1 : AndThen(SmReset(w1),
                              LAMBDA w2 : [w2 EXCEPT !.eventCount = 0,
                                                     !.log.restarted = TRUE]))

\* --------------------------------------------------- callback behaviours
Exec(w, cmd) ==
  CASE cmd.c = "transition" -> Transition(w, cmd.s)
    [] cmd.c = "forceTransition" -> ForceTransition(w, cmd.s)
    [] cmd.c = "queueEvent" -> QueueEvent(w, cmd.e)
    [] cmd.c = "throw" -> Throw(w)
    [] cmd.c = "stop" -> Stop(w)
    [] cmd.c = "pause" -> Pause(w)
    [] cmd.c = "resume" -> Resume(w)
    [] cmd.c = "start" -> Start(w, w.options)
    [] cmd.c = "reset" -> Reset(w)
    [] cmd.c = "injectEvent" -> InjectEvent(w, cmd.e)
    [] OTHER -> w

RunScript(w, script) ==
  IF script = << >> THEN w
  ELSE AndThen(Exec(w, Head(script)), LAMBDA v : RunScript(v, Tail(script)))

\* ----------------------------------------------------------------- stats
\* Math.max(0, runtime)
Max(a, b) == IF a >= b THEN a ELSE b

\* Mutant: stats without the deduction of the pause in progress.
StatsIgnoringPause ==
  [status |-> status, eventCount |-> eventCount,
   runtime |-> IF startTime # << >>
               THEN Max(0, now - startTime[1] - totalPausedDuration) ELSE 0,
   currentState |-> currentState]

\* get stats(): runtime = now - startTime - totalPausedDuration, less the
\* pause in progress when Paused; 0 before the first start().
Stats ==
  [status |-> status, eventCount |-> eventCount,
   runtime |-> IF startTime # << >>
               THEN Max(0, now - startTime[1] - totalPausedDuration
                             - (IF status = "paused" /\ pausedTime # << >>
                                THEN now - pausedTime[1] ELSE 0))
               ELSE 0,
   currentState |-> currentState]

\* ------------------------------------------------------------ event ids
\* A string is the sequence of its characters.
Evt == << "e", "v", "t" >>

\* Prefixes nextId is called with: 'evt' by BaseEvent and the generators,
\* others by domain code ("fact"), and one that ends like an id.
Prefixes == { Evt, << "f", "a", "c", "t" >>, << "e", "v", "t", "_", "1" >> }

\* Ids a caller passes to BaseEvent explicitly: one has the form of a
\* generated id.
ExplicitIds == { << "e", "v", "t", "_", "1" >>, << "m", "y" >> }

\* The decimal digits of n, as the template literal prints a number.
RECURSIVE Digits(_)
Digits(n) ==
  LET digit == << "0", "1", "2", "3", "4", "5", "6", "7", "8", "9" >>
  IN IF n < 10 THEN << digit[n + 1] >>
     ELSE Digits(n \div 10) \o << digit[(n % 10) + 1] >>

\* Mutant: the counter is printed and left as it is.
NextIdWithoutIncrement(counter, prefix) ==
  [counter |-> counter, id |-> prefix \o << "_" >> \o Digits(counter)]

\* nextId(prefix): return `${prefix}_${++_idCounter}`; the result carries the
\* new value of the counter.
NextId(counter, prefix) ==
  [counter |-> counter + 1, id |-> prefix \o << "_" >> \o Digits(counter + 1)]

\* new BaseEvent(type, payload, id): this.id = id ?? nextId('evt').  given is
\* << >> for a missing id and << id >> for an explicit one; the event keeps
\* whether its id was generated and from which counter value.
BaseEvent(counter, given) ==
  IF given = << >>
  THEN LET r == NextId(counter, Evt)
       IN [counter |-> r.counter,
           event |-> [id |-> r.id, generated |-> TRUE, n |-> r.counter]]
  ELSE [counter |-> counter,
        event |-> [id |-> given[1], generated |-> FALSE, n |-> 0]]

\* EventFactory.create(type, payload, id): return new BaseEvent(...)
Create(counter, given) == BaseEvent(counter, given)

\* EventFactory.createMany(eventData): eventData.map(data => this.create(...))
RECURSIVE CreateMany(_, _)
CreateMany(counter, eventData) ==
  IF eventData = << >> THEN [counter |-> counter, events |-> << >>]
  ELSE LET first == Create(counter, Head(eventData))
           rest == CreateMany(first.counter, Tail(eventData))
       IN [counter |-> rest.counter, events |-> << first.event >> \o rest.events]

\* A generator of LEGAL_EVENT_GENERATORS: ({ id: nextId('evt'), type, ... })
Generated(counter) ==
  LET r == NextId(counter, Evt)
  IN [counter |-> r.counter,
      event |-> [id |-> r.id, generated |-> TRUE, n |-> r.counter]]

\* ------------------------------------------------------------------ Init
Init ==
  /\ allowedTransitions \in Tables
  /\ currentState \in States
  /\ stateHistory = << [state |-> currentState, timestamp |-> 0] >>
  /\ queue = << >>
  /\ handlers = NoHandlers
  /\ globalHandlers = << "processEvent" >>
  /\ status = "stopped"
  /\ timer = "null"
  /\ leaked = 0
  /\ eventCount = 0
  /\ startTime = << >>
  /\ pausedTime = << >>
  /\ totalPausedDuration = 0
  /\ options = EmptyOptions
  /\ now = 0
  /\ idCounter = 0
  /\ created = << >>
  /\ log = FreshLog("init", 0, "")

\* ------------------------------------------------ actions: the EventQueue
\* The model explores only queues and registries within the bounds.
InQueueBounds(w) ==
  /\ Len(w.queue) <= MaxPending
  /\ Len(w.globalHandlers) + Len(w.handlers["a"]) + Len(w.handlers["b"])
       <= MaxHandlers

OnCall(t, h) ==
  \E w \in { On([Enter("on", 0, t) EXCEPT !.log.h = h], t, h) } :
    InQueueBounds(w) /\ Install(w)

OnAnyCall(h) ==
  \E w \in { OnAny([Enter("onAny", 0, "") EXCEPT !.log.h = h], h) } :
    InQueueBounds(w) /\ Install(w)

OffCall(t, h) ==
  \E w \in { Off([Enter("off", 0, t) EXCEPT !.log.h = h], t, h) } :
    InQueueBounds(w) /\ Install(w)

OffAnyCall(h) ==
  \E w \in { OffAny([Enter("offAny", 0, "") EXCEPT !.log.h = h], h) } :
    InQueueBounds(w) /\ Install(w)

EnqueueCall(e) ==
  \E w \in { Enqueue(Enter("enqueue", 0, e), e) } :
    InQueueBounds(w) /\ Install(w)

DequeueCall ==
  \E w \in { Dequeue(Enter("dequeue", 0, "")) } :
    InQueueBounds(w) /\ Install(w)

ProcessCall(e) ==
  \E w \in { Process(Enter("process", 0, e), e) } :
    InQueueBounds(w) /\ Install(w)

ProcessAllCall ==
  \E w \in { ProcessAll(Enter("processAll", 0, "")) } :
    InQueueBounds(w) /\ Install(w)

ClearCall ==
  \E w \in { Clear(Enter("clear", 0, "")) } :
    InQueueBounds(w) /\ Install(w)

ClearHandlersCall ==
  \E w \in { ClearHandlers(Enter("clearHandlers", 0, "")) } :
    InQueueBounds(w) /\ Install(w)

\* -------------------------------------------- actions: the state machine
CanTransitionCall(t) ==
  \E w \in { [Enter("canTransition", t, "") EXCEPT
                !.log.ret = IF CanTransition(Enter("canTransition", t, ""), t)
                            THEN "true" ELSE "false"] } :
    InBounds(w) /\ Install(w)

TransitionCall(t) ==
  \E w \in { Transition(Enter("transition", t, ""), t) } :
    InBounds(w) /\ Install(w)

ForceTransitionCall(t) ==
  \E w \in { ForceTransition(Enter("forceTransition", t, ""), t) } :
    InBounds(w) /\ Install(w)

QueueEventCall(e) ==
  \E w \in { QueueEvent(Enter("queueEvent", 0, e), e) } :
    InBounds(w) /\ Install(w)

ProcessEventCall(e) ==
  \E w \in { ProcessEvent(Enter("processEvent", 0, e), e) } :
    InBounds(w) /\ Install(w)

ProcessPendingEventsCall ==
  \E w \in { ProcessPendingEvents(Enter("processPendingEvents", 0, "")) } :
    InBounds(w) /\ Install(w)

SmResetCall ==
  \E w \in { SmReset(Enter("smReset", 0, "")) } :
    InBounds(w) /\ Install(w)

\* The wall clock advances.
Advance ==
  \E w \in { [Enter("advance", 0, "") EXCEPT !.now = @ + 1] } :
    InBounds(w) /\ Install(w)

\* ---------------------------------------------------- actions: the engine
StartCall(o) ==
  \E w \in { Start(Enter("start", 0, ""), o) } :
    InBounds(w) /\ Install(w)

StopCall ==
  \E w \in { Stop(Enter("stop", 0, "")) } :
    InBounds(w) /\ Install(w)

PauseCall ==
  \E w \in { Pause(Enter("pause", 0, "")) } :
    InBounds(w) /\ Install(w)

ResumeCall ==
  \E w \in { Resume(Enter("resume", 0, "")) } :
    InBounds(w) /\ Install(w)

ResetCall ==
  \E w \in { Reset(Enter("reset", 0, "")) } :
    InBounds(w) /\ Install(w)

InjectEventCall(e) ==
  \E w \in { InjectEvent(Enter("injectEvent", 0, e), e) } :
    InBounds(w) /\ Install(w)

TickCall(r) ==
  \E w \in { Tick(Enter("tick", r, ""), r) } :
    InBounds(w) /\ Install(w)

\* A timer fires: the one _timer refers to, or one the engine lost track of.
TimerFire(which, r) ==
  /\ IF which = "current" THEN timer = "live" ELSE leaked > 0
  /\ \E w \in { TimerCallback([Enter("timer", r, which) EXCEPT
                                  !.timer = IF which = "current" THEN "dead" ELSE @,
                                  !.leaked = IF which = "current" THEN @ ELSE @ - 1],
                                r) } :
       InBounds(w) /\ Install(w)

\* ------------------------------------------------- actions: event ids
\* The model explores only counters and event lists within the bounds.
IdStep(op, counter, events) ==
  /\ counter <= MaxIds
  /\ Len(created) + Len(events) <= MaxCreated
  /\ idCounter' = counter
  /\ created' = created \o events
  /\ log' = FreshLog(op, 0, "")
  /\ UNCHANGED << allowedTransitions, currentState, stateHistory, queue,
                  handlers, globalHandlers, status, timer, leaked, eventCount,
                  startTime, pausedTime, totalPausedDuration, options, now >>

\* nextId(prefix) called by domain code for something other than an event.
NextIdCall(prefix) ==
  \E r \in { NextId(idCounter, prefix) } :
    IdStep("nextId", r.counter, << >>)

BaseEventCall(given) ==
  \E r \in { BaseEvent(idCounter, given) } :
    IdStep("BaseEvent", r.counter, << r.event >>)

CreateCall(given) ==
  \E r \in { Create(idCounter, given) } :
    IdStep("create", r.counter, << r.event >>)

CreateManyCall(eventData) ==
  \E r \in { CreateMany(idCounter, eventData) } :
    IdStep("createMany", r.counter, r.events)

GeneratorCall ==
  \E r \in { Generated(idCounter) } :
    IdStep("generator", r.counter, << r.event >>)

\* ------------------------------------------------------- specifications
\* An EventQueue used on its own: new EventQueue(), no handler registered.
InitQueue ==
  /\ allowedTransitions = TableChain
  /\ currentState = 0
  /\ stateHistory = << [state |-> currentState, timestamp |-> 0] >>
  /\ queue = << >>
  /\ handlers = NoHandlers
  /\ globalHandlers = << >>
  /\ status = "stopped"
  /\ timer = "null"
  /\ leaked = 0
  /\ eventCount = 0
  /\ startTime = << >>
  /\ pausedTime = << >>
  /\ totalPausedDuration = 0
  /\ options = EmptyOptions
  /\ now = 0
  /\ idCounter = 0
  /\ created = << >>
  /\ log = FreshLog("init", 0, "")

NextQueue ==
  \/ \E t \in QueueEvents, h \in HandlerNames : OnCall(t, h)
  \/ \E h \in HandlerNames : OnAnyCall(h)
  \/ \E t \in QueueEvents, h \in HandlerNames : OffCall(t, h)
  \/ \E h \in HandlerNames : OffAnyCall(h)
  \/ \E e \in QueueEvents : EnqueueCall(e)
  \/ DequeueCall
  \/ \E e \in QueueEvents : ProcessCall(e)
  \/ ProcessAllCall
  \/ ClearCall
  \/ ClearHandlersCall

SpecQueue == InitQueue /\ [][NextQueue]_vars

\* An EventQueue whose handlers may deregister themselves during process().
NextSelfOff ==
  \/ \E t \in QueueEvents, h \in SelfOffHandlers : OnCall(t, h)
  \/ \E h \in SelfOffHandlers : OnAnyCall(h)
  \/ \E t \in QueueEvents, h \in SelfOffHandlers : OffCall(t, h)
  \/ \E h \in SelfOffHandlers : OffAnyCall(h)
  \/ \E e \in QueueEvents : EnqueueCall(e)
  \/ \E e \in QueueEvents : ProcessCall(e)
  \/ ProcessAllCall
  \/ ClearHandlersCall

SpecSelfOff == InitQueue /\ [][NextSelfOff]_vars

\* The state machine used on its own.
NextSM ==
  \/ \E t \in States : CanTransitionCall(t)
  \/ \E t \in States : TransitionCall(t)
  \/ \E t \in States : ForceTransitionCall(t)
  \/ \E e \in SmEvents : QueueEventCall(e)
  \/ \E e \in SmEvents : ProcessEventCall(e)
  \/ ProcessPendingEventsCall
  \/ SmResetCall

SpecSM == Init /\ [][NextSM]_vars

\* The engine driving a machine built with the table 0 -> 1 -> 2.
InitEngine == Init /\ allowedTransitions = TableChain /\ currentState \in {0, 1}

Next ==
  \/ \E o \in OptionSets : StartCall(o)
  \/ StopCall
  \/ PauseCall
  \/ ResumeCall
  \/ ResetCall
  \/ \E e \in InjectedEvents : InjectEventCall(e)
  \/ \E r \in RandomDraws : TickCall(r)
  \/ \E which \in {"current", "leaked"}, r \in RandomDraws : TimerFire(which, r)

Spec == InitEngine /\ [][Next]_vars

\* The engine's lifecycle against the wall clock.
NextTime ==
  \/ \E o \in TimeOptionSets : StartCall(o)
  \/ StopCall
  \/ PauseCall
  \/ ResumeCall
  \/ InjectEventCall("boom")
  \/ TimerFire("current", 0)
  \/ Advance

SpecTime == InitEngine /\ [][NextTime]_vars

\* startRealtimeFeed(machine, {eventGenerators: LEGAL_EVENT_GENERATORS, ...})
\* on a new LegalReviewStateMachine: a new engine, start(options), and the
\* returned function that stops it.
InitLegal ==
  /\ allowedTransitions = LegalTransitions
  /\ currentState = LegalPhase.Initial
  /\ stateHistory = << [state |-> currentState, timestamp |-> 0] >>
  /\ queue = << >>
  /\ handlers = NoHandlers
  /\ globalHandlers = << "processEvent" >>
  /\ status = "stopped"
  /\ timer = "null"
  /\ leaked = 0
  /\ eventCount = 0
  /\ startTime = << >>
  /\ pausedTime = << >>
  /\ totalPausedDuration = 0
  /\ options = EmptyOptions
  /\ now = 0
  /\ idCounter = 0
  /\ created = << >>
  /\ log = FreshLog("init", 0, "")

NextLegal ==
  \/ StartCall(LegalOptions)
  \/ \E r \in LegalDraws : TimerFire("current", r)
  \/ StopCall

SpecLegal == InitLegal /\ [][NextLegal]_vars

\* A state machine, generic or the legal one, on which forceTransition and
\* reset are never called: the states and events its clients use.
MachineStates ==
  IF allowedTransitions = LegalTransitions THEN LegalPhases ELSE States

MachineEvents ==
  IF allowedTransitions = LegalTransitions THEN LegalEvents ELSE SmEvents

InitChecked == Init \/ InitLegal

NextChecked ==
  \/ \E t \in MachineStates : CanTransitionCall(t)
  \/ \E t \in MachineStates : TransitionCall(t)
  \/ \E e \in MachineEvents : QueueEventCall(e)
  \/ \E e \in MachineEvents : ProcessEventCall(e)
  \/ ProcessPendingEventsCall

SpecChecked == InitChecked /\ [][NextChecked]_vars

\* Events constructed in one run of the program: the module starts with
\* _idCounter = 0.
GivenIds == { << >> } \cup { << id >> : id \in ExplicitIds }

NextIds ==
  \/ \E prefix \in Prefixes : NextIdCall(prefix)
  \/ \E given \in GivenIds : BaseEventCall(given)
  \/ \E given \in GivenIds : CreateCall(given)
  \/ \E a, b \in GivenIds : CreateManyCall(<< a, b >>)
  \/ GeneratorCall

SpecIds == InitQueue /\ [][NextIds]_vars

\* The engine driven by its timer and by tick() alone: no event is injected.
NextTick ==
  \/ \E o \in TickOptionSets : StartCall(o)
  \/ StopCall
  \/ PauseCall
  \/ ResumeCall
  \/ \E r \in RandomDraws : TickCall(r)
  \/ \E which \in {"current", "leaked"}, r \in RandomDraws : TimerFire(which, r)

SpecTick == InitEngine /\ [][NextTick]_vars

\* The engine driven by its timer alone: no event is injected and tick() is
\* not called from outside.
NextCapped ==
  \/ \E o \in CappedOptionSets : StartCall(o)
  \/ StopCall
  \/ PauseCall
  \/ ResumeCall
  \/ \E which \in {"current", "leaked"}, r \in RandomDraws : TimerFire(which, r)

SpecCapped == InitEngine /\ [][NextCapped]_vars

\* One start() with an event cap, then only the timer; a scheduled timer
\* fires after its delay (setTimeout), hence the fairness on the timer.
StartOnce(o) == status = "stopped" /\ startTime = << >> /\ StartCall(o)

CurrentTimerFires == \E r \in RandomDraws : TimerFire("current", r)

NextLive ==
  \/ \E o \in LiveOptionSets : StartOnce(o)
  \/ CurrentTimerFires

SpecLive == Init /\ [][NextLive]_vars /\ WF_vars(CurrentTimerFires)

\* ================================================================ claims
\* t is listed in allowedTransitions[s].
Listed(s, t) ==
  /\ String(s) \in DOMAIN allowedTransitions
  /\ \E i \in 1..Len(allowedTransitions[String(s)]) :
        allowedTransitions[String(s)][i] = String(t)

MachineVars == << allowedTransitions, currentState, stateHistory, queue >>

\* canTransition(t) changes nothing and answers whether t is listed.
C1_CanTransition ==
  log'.op = "canTransition" =>
    /\ UNCHANGED MachineVars
    /\ log'.ret = (IF Listed(currentState, log'.s) THEN "true" ELSE "false")
    /\ log'.invalid = << >> /\ log'.changes = << >>

\* transition(t) succeeds iff t is listed; a failure changes nothing and
\* invokes onInvalidTransition(s, t) once.
C1_Failure ==
  log'.op = "transition" =>
    /\ log'.ret = (IF Listed(currentState, log'.s) THEN "true" ELSE "false")
    /\ log'.ret = "false" =>
         /\ UNCHANGED MachineVars
         /\ log'.invalid = << << currentState, log'.s >> >>
         /\ log'.changes = << >>

\* C1 as stated: canTransition(t) changes nothing and returns true exactly
\* when t is in allowedTransitions[s]; transition(t) returns true iff
\* canTransition(t); on success currentState == t and the history is longer by
\* exactly 1; on failure both are unchanged and onInvalidTransition(s, t) is
\* invoked exactly once.
C1_Original ==
  [][/\ C1_CanTransition
     /\ C1_Failure
     /\ (log'.op = "transition" /\ log'.ret = "true") =>
          /\ currentState' = log'.s
          /\ Len(stateHistory') = Len(stateHistory) + 1]_vars

\* C1 amended: as C1, but on success the history keeps its entries, gains the
\* entry for t and then one entry per state change made while the pending
\* events are drained; currentState == t and the history is longer by exactly
\* 1 when the drain changes no state (in particular when nothing is pending).
C1_Amended ==
  [][/\ C1_CanTransition
     /\ C1_Failure
     /\ (log'.op = "transition" /\ log'.ret = "true") =>
          /\ Len(stateHistory') = Len(stateHistory) + Len(log'.changes)
          /\ SubSeq(stateHistory', 1, Len(stateHistory)) = stateHistory
          /\ stateHistory'[Len(stateHistory) + 1].state = log'.s
          /\ log'.changes[1] = << currentState, log'.s >>
          /\ currentState' = log'.changes[Len(log'.changes)][2]
          /\ (Len(log'.changes) = 1 \/ queue = << >>) =>
               /\ currentState' = log'.s
               /\ Len(stateHistory') = Len(stateHistory) + 1]_vars

\* A successful transition(t) whose drain changed the state again.
C1_Witness ==
  /\ log.op = "transition" /\ log.ret = "true"
  /\ Len(log.changes) > 1 /\ currentState # log.s

\* C9: when a successful transition (or forceTransition) returns, the events
\* pending at the state change and the events queued since have all been
\* handled, in that order, every state change they made is in the history, and
\* the pending queue is empty.
C9_DepthFirstDrain ==
  /\ \A i \in 1..Len(log.returns) :
        /\ log.returns[i].left = << >>
        /\ log.returns[i].handled = log.returns[i].owed
        /\ log.returns[i].recorded = log.returns[i].applied
  /\ (log.op = "transition" /\ log.ret = "true") =>
        queue = << >> /\ Len(log.returns) >= 1
  /\ log.op = "forceTransition" => queue = << >> /\ Len(log.returns) >= 1

\* A transition whose drain handled two events, one of them queued during the
\* drain, and made a nested transition.
C9_Witness ==
  /\ log.op = "transition" /\ log.ret = "true"
  /\ Len(log.returns) >= 2
  /\ Len(log.enq) >= 1
  /\ \E i \in 1..Len(log.returns) :
        Len(log.returns[i].owed) >= 2 /\ log.returns[i].applied >= 1

\* C10 as stated: after the state machine's reset() returns, currentState is
\* the initial state history[0].state, also when events are pending.
C10_ResetRestoresInitial ==
  log.op = "smReset" => currentState = stateHistory[1].state

EngineVars == << status, timer, leaked, eventCount, startTime, pausedTime,
                 totalPausedDuration, options >>

\* C2 as stated: a generator that throws during a tick does not end the
\* loop: the error does not escape, onTick has fired, eventCount is not
\* incremented, status stays Running and the next tick is scheduled.
C2_GeneratorErrorContained ==
  [][(log'.op = "timer" /\ log'.genThrew > 0) =>
       /\ ~log'.escaped
       /\ log'.calls.onTick = 1
       /\ eventCount' = eventCount
       /\ status' = "running"
       /\ timer' = "live"]_vars

\* Events whose domain handling throws.
ThrowingEvents == {"boom", "goBoom"}

\* An engine operation delivered one event, whose handler threw.
HandlerThrew ==
  /\ log'.op \in {"timer", "tick", "injectEvent"}
  /\ Len(log'.handled) = 1
  /\ log'.handled[1] \in ThrowingEvents

\* After a tick the engine has scheduled the next one, or stopped at the cap.
KeepsScheduling ==
  log'.op = "timer" =>
    \/ status' = "running" /\ timer' = "live" /\ log'.scheduled = 1
    \/ /\ status' = "stopped" /\ options'.maxEvents > 0
       /\ eventCount' >= options'.maxEvents

\* C3 as stated: when handleEvent throws, no error escapes, eventCount grows
\* by one, currentState and history are as before the event, and the engine
\* keeps scheduling ticks.
C3_Original ==
  [][HandlerThrew =>
       /\ ~log'.escaped
       /\ eventCount' = eventCount + 1
       /\ currentState' = currentState /\ stateHistory' = stateHistory
       /\ KeepsScheduling]_vars

\* C3 amended: as C3, but the transitions the handler completed before it
\* threw stay applied and recorded; a handler that throws before any
\* transition leaves currentState and history as they were.
C3_Amended ==
  [][HandlerThrew =>
       /\ ~log'.escaped
       /\ eventCount' = eventCount + 1
       /\ Len(stateHistory') = Len(stateHistory) + Len(log'.changes)
       /\ SubSeq(stateHistory', 1, Len(stateHistory)) = stateHistory
       /\ log'.changes = << >> =>
            currentState' = currentState /\ stateHistory' = stateHistory
       /\ log'.handled[1] = "boom" => log'.changes = << >>
       /\ KeepsScheduling]_vars

\* A timer tick generated an event whose handler threw at once; the count
\* grew and the next tick is scheduled.
C3_Witness ==
  /\ log.op = "timer" /\ log.handled = << "boom" >>
  /\ eventCount > 0 /\ status = "running" /\ timer = "live"

\* C4 as stated: the engine never has more than one outstanding tick timer.
C4_OneOutstandingTimer == leaked + (IF timer = "live" THEN 1 ELSE 0) <= 1

\* C5: a timer that fires while the engine is Stopped or Paused executes no
\* tick: no generator and no callback is invoked and nothing changes.
C5_StaleTimerGuard ==
  [][(log'.op = "timer" /\ status \in {"stopped", "paused"}) =>
       /\ log'.ticks = 0 /\ log'.gen = 0 /\ log'.calls = NoCalls
       /\ log'.handled = << >>
       /\ eventCount' = eventCount /\ status' = status
       /\ UNCHANGED MachineVars]_vars

\* A timer has fired while the engine was Stopped or Paused.
C5_Witness ==
  /\ log.op = "timer"
  /\ log.statusTrace \in { << "stopped" >>, << "paused" >> }
  /\ options.preset # "default"

\* C6 as stated: eventCount never decreases while Running, and while Stopped
\* or Paused only start() and reset() change it.
C6_Original ==
  [][/\ (status = "running" /\ status' = "running") => eventCount' >= eventCount
     /\ (status \in {"stopped", "paused"} /\ log'.op \notin {"start", "reset"}) =>
          eventCount' = eventCount]_vars

\* C6 amended: eventCount never decreases while Running (only start() and
\* reset() lower it), and while Stopped or Paused only start(), reset() and
\* injectEvent() change it: neither a firing timer nor tick().
C6_Amended ==
  [][/\ (status = "running" /\ status' = "running" /\ ~log'.restarted) =>
          eventCount' >= eventCount
     /\ eventCount' < eventCount => log'.restarted
     /\ (status \in {"stopped", "paused"}
           /\ log'.op \notin {"start", "reset", "injectEvent"}) =>
          eventCount' = eventCount]_vars

\* injectEvent() has raised eventCount while the engine was Stopped.
C6_Witness ==
  /\ log.op = "injectEvent" /\ log.statusTrace = << "stopped" >>
  /\ eventCount > 0 /\ Len(Preset(options.preset).eventGenerators) > 0

StatusEdges == { << "stopped", "running" >>, << "running", "paused" >>,
                 << "paused", "running" >>, << "running", "stopped" >>,
                 << "paused", "stopped" >> }

\* A lifecycle call that is not valid in the current status.
Misuse ==
  \/ log'.op = "start" /\ status = "running"
  \/ log'.op = "pause" /\ status # "running"
  \/ log'.op = "resume" /\ status # "paused"
  \/ log'.op = "stop" /\ status = "stopped"

\* C7: status changes only along Stopped->Running, Running->Paused,
\* Paused->Running, Running->Stopped and Paused->Stopped; a lifecycle call
\* that is not valid in the current status changes nothing, invokes no
\* callback and throws nothing.
C7_StatusEdges ==
  [][/\ \A i \in 1..(Len(log'.statusTrace) - 1) :
          << log'.statusTrace[i], log'.statusTrace[i + 1] >> \in StatusEdges
     /\ log'.statusTrace[1] = status
     /\ log'.statusTrace[Len(log'.statusTrace)] = status'
     /\ Misuse =>
          /\ UNCHANGED EngineVars
          /\ UNCHANGED MachineVars
          /\ log'.calls = NoCalls /\ log'.scheduled = 0 /\ ~log'.escaped]_vars

\* start() was called on a running engine that had counted an event, after
\* the clock had moved.
C7_Witness ==
  /\ log.op = "start" /\ log.statusTrace = << "running" >>
  /\ eventCount > 0 /\ now > startTime[1] /\ timer = "live"
  /\ options.preset = "watch"

\* C8: with a cap N > 0, at least one generator that never throws and no
\* pause/stop/reset/injectEvent, the started engine eventually is Stopped with
\* eventCount == N and stays so, no timer left to tick.
C8_ReachesCap ==
  startTime # << >> ~>
    [](/\ status = "stopped" /\ eventCount = options.maxEvents
       /\ timer # "live" /\ leaked = 0)

\* C11 as stated: reset() leaves stateHistory with exactly one entry, the
\* original first entry, whatever the initial state and the transitions made.
C11_ResetTruncatesHistory ==
  [][log'.op = "smReset" => stateHistory' = << stateHistory[1] >>]_vars

\* C12: between start() and stop(), stats.runtime is the wall time since
\* start less the pause intervals, completed and in progress: it is 0 at
\* start(), grows with the clock while Running, stands still while Paused,
\* is not changed by pause() or resume() themselves, and is never negative;
\* right after a resume() it is (now - startTime) - (the time spent Paused).
C12_RuntimeAccounting ==
  [][/\ Stats.runtime' >= 0
     /\ (log'.op = "start" /\ log'.restarted) => Stats.runtime' = 0
     /\ (log'.op = "advance" /\ status = "running") =>
          Stats.runtime' = Stats.runtime + (now' - now)
     /\ (log'.op = "advance" /\ status = "paused") =>
          Stats.runtime' = Stats.runtime
     /\ (log'.op \in {"pause", "resume"} /\ status \in {"running", "paused"}) =>
          Stats.runtime' = Stats.runtime
     /\ (log'.op = "resume" /\ status = "paused") =>
          Stats.runtime' = (now - startTime[1])
                             - (totalPausedDuration + (now - pausedTime[1]))]_vars

\* resume() has ended a pause that lasted, on an engine that had run before
\* the pause: the runtime is the time since start less the pause.
C12_Witness ==
  /\ log.op = "resume" /\ log.statusTrace = << "paused", "running" >>
  /\ totalPausedDuration > 0
  /\ Stats.runtime > 0
  /\ Stats.runtime = now - startTime[1] - totalPausedDuration

\* C13 as stated: stats.runtime is the time spent Running since the last
\* start(): it does not grow while the engine is Paused or Stopped, and
\* stop() on a Paused engine leaves the pause in progress out of it.
C13_RuntimeIsRunningTime ==
  [][/\ (log'.op = "advance" /\ status \in {"paused", "stopped"}) =>
          Stats.runtime' = Stats.runtime
     /\ (log'.op = "stop" /\ status = "paused") =>
          Stats.runtime' = Stats.runtime]_vars

\* The handlers process(e) owes a call: those registered for e's type, then
\* the global ones, each list in registration order.
Matching(e) == handlers[e] \o globalHandlers

\* The calls process(e) owes, in order.
Deliveries(e) == [i \in 1..Len(Matching(e)) |-> << Matching(e)[i], e >>]

\* The events a handler of e enqueues while e is processed.
EnqueuedBy(e) ==
  LET enqueuers == { i \in 1..Len(Matching(e)) : Matching(e)[i] = "hEnq" }
  IN IF e = "a" THEN [i \in 1..Cardinality(enqueuers) |-> "b"] ELSE << >>

\* The order in which a drain starting with the queue q owes the events.
RECURSIVE DrainOrder(_)
DrainOrder(q) ==
  IF q = << >> THEN << >>
  ELSE << Head(q) >> \o DrainOrder(Tail(q) \o EnqueuedBy(Head(q)))

\* The calls owed for the events es, event after event.
RECURSIVE DeliveriesOf(_)
DeliveriesOf(es) ==
  IF es = << >> THEN << >> ELSE Deliveries(Head(es)) \o DeliveriesOf(Tail(es))

\* A call to hThrow was made, so a handler threw.
Threw(delivered) == \E i \in 1..Len(delivered) : delivered[i][1] = "hThrow"

\* C14: a handler that throws during process or during a drain stops
\* nothing: no exception reaches the caller, the handlers after it are still
\* called and the events still queued are still processed.
C14_ThrowDoesNotStopDelivery ==
  [][(log'.op \in {"process", "processAll"} /\ Threw(log'.delivered)) =>
       /\ ~log'.escaped
       /\ log'.op = "process" =>
            Len(log'.delivered) = Len(Matching(log'.e))
       /\ log'.op = "processAll" =>
            /\ queue' = << >>
            /\ Len(log'.processed) = Len(DrainOrder(queue))
            /\ Len(log'.delivered) = Len(DeliveriesOf(DrainOrder(queue)))]_vars

\* A drain of two events in which the first handler of the first event threw
\* and a later handler and the second event were still served.
C14_Witness ==
  /\ log.op = "processAll" /\ ~log.escaped
  /\ Len(log.processed) >= 2
  /\ Len(log.delivered) >= 3
  /\ log.delivered[1][1] = "hThrow"
  /\ log.delivered[2][2] = log.delivered[1][2]
  /\ queue = << >>

\* C15: process(e) calls exactly the handlers registered for e's type, in
\* registration order, then the global handlers in registration order, and no
\* handler of another type; with no matching handler it does nothing.
C15_ProcessCallsMatchingHandlers ==
  [][log'.op = "process" =>
       /\ log'.delivered = Deliveries(log'.e)
       /\ Matching(log'.e) = << >> =>
            /\ UNCHANGED << queue, handlers, globalHandlers >>
            /\ log'.enq = << >> /\ ~log'.escaped]_vars

\* process(e) has called a handler of e's type and then a different, global
\* handler, while a handler was registered for the other type.
C15_Witness ==
  /\ log.op = "process"
  /\ Len(log.delivered) = 2
  /\ log.delivered[1][1] # log.delivered[2][1]
  /\ handlers[log.e] = << log.delivered[1][1] >>
  /\ globalHandlers = << log.delivered[2][1] >>
  /\ \E t \in QueueEvents : t # log.e /\ handlers[t] # << >>

\* C16: processAll() returns with the queue empty, having processed once, in
\* FIFO order, every event present at the call and every event a handler
\* enqueued during the drain; enqueue adds at the tail, dequeue takes the head.
C16_DrainIsCompleteAndFifo ==
  [][/\ log'.op = "processAll" =>
          /\ queue' = << >>
          /\ log'.processed = DrainOrder(queue)
          /\ log'.delivered = DeliveriesOf(DrainOrder(queue))
          /\ ~log'.escaped
     /\ log'.op = "enqueue" => queue' = Append(queue, log'.e)
     /\ (log'.op = "dequeue" /\ queue # << >>) =>
          queue' = Tail(queue) /\ log'.ret = Head(queue)
     /\ (log'.op = "dequeue" /\ queue = << >>) =>
          queue' = << >> /\ log'.ret = "none"]_vars

\* A drain that found "b" then "a" in the queue and processed them in that
\* order, then the "b" a handler of "a" enqueued meanwhile.
C16_Witness ==
  /\ log.op = "processAll"
  /\ log.processed = << "b", "a", "b" >>
  /\ log.enq = << "b" >>
  /\ queue = << >>

\* C17 as stated: forceTransition(t), listed edge or not, leaves
\* currentState == t and one more history entry, has invoked
\* onStateChange(from, t) once and no onInvalidTransition, and has drained
\* the pending events.
C17_Original ==
  [][log'.op = "forceTransition" =>
       /\ currentState' = log'.s
       /\ Len(stateHistory') = Len(stateHistory) + 1
       /\ log'.changes = << << currentState, log'.s >> >>
       /\ queue' = << >>
       /\ log'.invalid = << >>]_vars

\* What transition(t) would leave behind, called in the same state.
TransitionInstead(t) == Transition(Enter("forceTransition", t, ""), t)

\* C17 amended: forceTransition(t), listed edge or not, sets currentState to
\* t, appends the entry for t, invokes onStateChange(from, t) and drains the
\* pending events, exactly as a successful transition(t) does where the edge
\* is listed; the drained events may change the state again and may attempt
\* invalid transitions, so currentState == t, one more entry, one
\* onStateChange and no onInvalidTransition hold when nothing is pending.
C17_Amended ==
  [][log'.op = "forceTransition" =>
       /\ log'.changes[1] = << currentState, log'.s >>
       /\ stateHistory'[Len(stateHistory) + 1].state = log'.s
       /\ SubSeq(stateHistory', 1, Len(stateHistory)) = stateHistory
       /\ Len(stateHistory') = Len(stateHistory) + Len(log'.changes)
       /\ currentState' = log'.changes[Len(log'.changes)][2]
       /\ queue' = << >>
       /\ ~log'.escaped
       /\ queue = << >> =>
            /\ currentState' = log'.s
            /\ Len(stateHistory') = Len(stateHistory) + 1
            /\ log'.changes = << << currentState, log'.s >> >>
            /\ log'.invalid = << >>
       /\ Listed(currentState, log'.s) =>
            /\ currentState' = TransitionInstead(log'.s).currentState
            /\ stateHistory' = TransitionInstead(log'.s).stateHistory
            /\ queue' = TransitionInstead(log'.s).queue
            /\ log'.changes = TransitionInstead(log'.s).log.changes
            /\ log'.invalid = TransitionInstead(log'.s).log.invalid
            /\ log'.handled = TransitionInstead(log'.s).log.handled]_vars

\* forceTransition(t) along an edge that is not listed, with an event pending
\* whose handling changed the state again.
C17_Witness ==
  /\ log.op = "forceTransition"
  /\ Len(log.changes) > 1
  /\ ~Listed(log.changes[1][1], log.changes[1][2])
  /\ log.handled # << >>
  /\ currentState # log.s

\* C18 as stated: injectEvent(e) hands e to the machine's processEvent before
\* it returns, in every status, and changes neither the status nor the
\* outstanding timer.
C18_Original ==
  [][log'.op = "injectEvent" =>
       /\ log'.handled # << >> /\ log'.handled[1] = log'.e
       /\ status' = status
       /\ timer' = timer /\ leaked' = leaked]_vars

\* Events whose domain handling calls a lifecycle method of the engine.
LifecycleEvents == {"hStop", "hPause"}

\* C18 amended: injectEvent(e) hands e to the machine's processEvent before it
\* returns, in every status, and lets no error out; the status and the
\* outstanding timer are unchanged unless the handling of e itself calls a
\* lifecycle method of the engine.
C18_Amended ==
  [][log'.op = "injectEvent" =>
       /\ log'.handled # << >> /\ log'.handled[1] = log'.e
       /\ ~log'.escaped
       /\ log'.e \notin LifecycleEvents =>
            /\ status' = status
            /\ log'.statusTrace = << status >>
            /\ timer' = timer /\ leaked' = leaked
            /\ log'.scheduled = 0]_vars

\* injectEvent on a Paused engine: the event was handled, and the event it
\* queued after it; the engine is still Paused.
C18_Witness ==
  /\ log.op = "injectEvent" /\ log.e = "chain"
  /\ Len(log.handled) >= 1 /\ log.handled[1] = "chain"
  /\ status = "paused" /\ log.statusTrace = << "paused" >>

\* C19: every injectEvent() call raises eventCount by exactly one, in every
\* status; with the one a tick adds for the event it generated, and start()
\* and reset() setting it to 0, stats.eventCount is the number of generated
\* plus injected events processed since the last start() or reset().
C19_EventCountCounts ==
  [][/\ Stats.eventCount' = eventCount'
     /\ log'.op = "injectEvent" => eventCount' = eventCount + 1
     /\ log'.op \in {"timer", "tick"} =>
          eventCount' = eventCount + (log'.gen - log'.genThrew)
     /\ (log'.op \in {"start", "reset"} /\ log'.restarted) => eventCount' = 0
     /\ (log'.op \in {"start", "stop", "pause", "resume"} /\ ~log'.restarted) =>
          eventCount' = eventCount]_vars

\* injectEvent on a Running engine that had counted one event: the handler
\* threw, and the count is two.
C19_Witness ==
  /\ log.op = "injectEvent" /\ log.handled = << "boom" >>
  /\ status = "running" /\ eventCount = 2

\* C20 as stated: engine.reset(), in any status, leaves the engine Stopped
\* with no outstanding timer and eventCount == 0, and the machine in its
\* initial state with a history of length 1.
C20_EngineResetRestoresAll ==
  [][log'.op = "reset" =>
       /\ status' = "stopped"
       /\ timer' # "live" /\ leaked' = 0
       /\ eventCount' = 0
       /\ currentState' = stateHistory[1].state
       /\ Len(stateHistory') = 1]_vars

\* C21: start() from Stopped or Paused sets status Running, eventCount 0, the
\* paused duration 0 and startTime, invokes onStart once, and then schedules
\* one tick, with no pause start left; if onStart stopped or paused the
\* engine, it schedules none.
C21_StartSchedulesAfterOnStart ==
  [][(log'.op = "start" /\ status \in {"stopped", "paused"}) =>
       /\ log'.restarted /\ ~log'.escaped
       /\ log'.statusTrace[2] = "running"
       /\ eventCount' = 0 /\ totalPausedDuration' = 0
       /\ startTime' = << now >>
       /\ log'.calls.onStart =
            (IF "onStart" \in Preset(options'.preset).callbacks THEN 1 ELSE 0)
       /\ IF log'.statusTrace = << status, "running" >>
          THEN /\ status' = "running" /\ pausedTime' = << >>
               /\ log'.scheduled = 1 /\ timer' = "live" /\ leaked' = leaked
          ELSE /\ status' \in {"stopped", "paused"}
               /\ log'.scheduled = 0 /\ timer' # "live"]_vars

\* start() on a Paused engine whose onStart paused the engine again: no tick
\* is scheduled.
C21_Witness ==
  /\ log.op = "start"
  /\ log.statusTrace = << "paused", "running", "paused" >>
  /\ log.calls.onStart = 1 /\ log.scheduled = 0
  /\ timer # "live" /\ eventCount = 0

\* The table has no entry, or an empty one, for the state s.
NoWayOut(s) ==
  \/ String(s) \notin DOMAIN allowedTransitions
  \/ allowedTransitions[String(s)] = << >>

\* C22: from a state whose table entry is empty or missing, transition(t)
\* fails for every t, the current state included: it returns false, leaves
\* currentState, history and queue as they are and invokes
\* onInvalidTransition(s, t).
C22_NoWayOutFails ==
  [][(log'.op = "transition" /\ NoWayOut(currentState)) =>
       /\ log'.ret = "false"
       /\ UNCHANGED MachineVars
       /\ log'.invalid = << << currentState, log'.s >> >>
       /\ log'.changes = << >> /\ ~log'.escaped]_vars

\* With the table 0 -> 1 -> 2 the machine has reached 2 with three history
\* entries, and transition(2) has just failed there.
C22_Witness ==
  /\ log.op = "transition" /\ log.ret = "false" /\ log.s = 2
  /\ allowedTransitions = TableChain
  /\ currentState = 2 /\ Len(stateHistory) = 3
  /\ stateHistory[1].state = 0 /\ stateHistory[2].state = 1

\* ------------------------------------------------------------------- C23
\* The phase the legal machine is in after the engine has processed the
\* generated event e in phase p.
PhaseAfter(p, e) ==
  EngineProcessEvent(
    [Enter("timer", 0, e) EXCEPT
       !.allowedTransitions = LegalTransitions, !.currentState = p,
       !.stateHistory = << [state |-> p, timestamp |-> 0] >>,
       !.queue = << >>], e).currentState

\* Every phase some sequence of generated events leads to from a phase of S.
RECURSIVE PhasesReachable(_)
PhasesReachable(S) ==
  LET T == S \cup { PhaseAfter(p, e) : p \in S, e \in LegalEvents }
  IN IF T = S THEN S ELSE PhasesReachable(T)

\* The phases the generated events do lead to from Initial.
LegalPhasesVisited ==
  currentState \in { LegalPhase.Initial, LegalPhase.ConflictsCheck }

\* C23 as stated: in the legal review simulation some sequence of events
\* produced by LEGAL_EVENT_GENERATORS takes the machine from phase Initial to
\* phase Complete.
C23_CompleteReachable ==
  currentState = LegalPhase.Initial =>
    LegalPhase.Complete \in PhasesReachable({ currentState })

\* ------------------------------------------------------------------- C24
\* The number of registrations of the handler h in list.
Count(list, h) == Cardinality({ i \in 1..Len(list) : list[i] = h })

\* The number of calls of the handler h with the event e.
Calls(delivered, h, e) ==
  Cardinality({ i \in 1..Len(delivered) : delivered[i] = << h, e >> })

\* after is before without one of the registrations of h.
RemovesOne(before, after, h) ==
  \E i \in 1..Len(before) :
    /\ before[i] = h
    /\ after = SubSeq(before, 1, i - 1) \o SubSeq(before, i + 1, Len(before))

\* C24: on and onAny do not deduplicate, so a handler registered k times is
\* called k times per delivery; off and offAny remove exactly one
\* registration of the handler, and change nothing when the handler is not
\* registered or the type has no handler.
C24_NoDeduplication ==
  [][/\ log'.op = "on" =>
          /\ handlers' = [handlers EXCEPT ![log'.e] = Append(@, log'.h)]
          /\ Count(handlers'[log'.e], log'.h) = Count(handlers[log'.e], log'.h) + 1
          /\ UNCHANGED << globalHandlers, queue >>
     /\ log'.op = "onAny" =>
          /\ globalHandlers' = Append(globalHandlers, log'.h)
          /\ UNCHANGED << handlers, queue >>
     /\ log'.op = "off" =>
          IF Count(handlers[log'.e], log'.h) = 0
          THEN UNCHANGED << handlers, globalHandlers, queue >>
          ELSE /\ RemovesOne(handlers[log'.e], handlers'[log'.e], log'.h)
               /\ \A t \in QueueEvents \ { log'.e } : handlers'[t] = handlers[t]
               /\ UNCHANGED << globalHandlers, queue >>
     /\ log'.op = "offAny" =>
          IF Count(globalHandlers, log'.h) = 0
          THEN UNCHANGED << handlers, globalHandlers, queue >>
          ELSE /\ RemovesOne(globalHandlers, globalHandlers', log'.h)
               /\ UNCHANGED << handlers, queue >>
     /\ log'.op = "process" =>
          \A h \in HandlerNames :
            Calls(log'.delivered, h, log'.e) =
              Count(handlers[log'.e], h) + Count(globalHandlers, h)]_vars

\* process("a") has called hOk three times: it is registered twice for "a"
\* and once for every type.
C24_Witness ==
  /\ log.op = "process" /\ log.e = "a"
  /\ handlers["a"] = << "hOk", "hOk" >> /\ globalHandlers = << "hOk" >>
  /\ Calls(log.delivered, "hOk", "a") = 3

\* ------------------------------------------------------------------- C25
\* a is a prefix of b.
IsPrefix(a, b) == Len(a) <= Len(b) /\ SubSeq(b, 1, Len(a)) = a

\* C25: stateHistory starts as the single entry of the initial state and
\* never loses it: the history is never empty and its first entry never
\* changes.  Every operation other than reset() only appends to the history
\* (the entries already there stay as they are), so only reset() shortens it.
C25_HistoryAppendOnly ==
  /\ Len(stateHistory) = 1 /\ stateHistory[1].state = currentState
  /\ [][/\ Len(stateHistory') >= 1
        /\ stateHistory'[1] = stateHistory[1]
        /\ log'.op # "smReset" => IsPrefix(stateHistory, stateHistory')
        /\ Len(stateHistory') < Len(stateHistory) => log'.op = "smReset"]_vars

\* reset() has cut a history of three entries (0, then 1, then 2) back to
\* its first entry.
C25_Witness ==
  /\ log.op = "smReset" /\ log.changes = << << 2, 1 >> >>
  /\ stateHistory = << [state |-> 1, timestamp |-> 0] >>

\* ------------------------------------------------------------------- C26
\* C26: any two events constructed without an explicit id (by BaseEvent, by
\* EventFactory or by a generator calling nextId) have different ids: the
\* later one was given a strictly larger value of the counter than every
\* earlier one, and the counter never falls behind a value it has given.
C26_GeneratedIdsUnique ==
  \A i, j \in 1..Len(created) :
    (i < j /\ created[i].generated /\ created[j].generated) =>
      /\ created[i].n < created[j].n
      /\ created[j].n <= idCounter
      /\ created[i].id # created[j].id

\* Two events with generated ids, the second given the counter value 11
\* after nextId calls with other prefixes in between.
C26_Witness ==
  /\ Len(created) = 2
  /\ created[1].generated /\ created[1].id = << "e", "v", "t", "_", "1" >>
  /\ created[2].generated /\ created[2].id = << "e", "v", "t", "_", "1", "1" >>

\* ------------------------------------------------------------------- C27
\* The option set in force has no generator.
NoGenerators == Len(Preset(options.preset).eventGenerators) = 0

\* C27: a tick is executed exactly when tick() or a timer finds the engine
\* Running, and an executed tick calls onTick exactly once (when onTick is
\* supplied), whether generators are configured or not and whether the
\* generator returned an event or threw.  Without generators a tick produces
\* no event, eventCount stays 0 and a timer-fired tick schedules the next.
C27_TickCallsOnTick ==
  /\ [](NoGenerators => eventCount = 0)
  /\ [][log'.op \in {"tick", "timer"} =>
          /\ log'.ticks = (IF status = "running" THEN 1 ELSE 0)
          /\ log'.calls.onTick =
               (IF "onTick" \in Preset(options.preset).callbacks
                THEN log'.ticks ELSE 0)
          /\ NoGenerators =>
               /\ log'.gen = 0 /\ eventCount' = eventCount
               /\ ~log'.escaped
               /\ (log'.op = "timer" /\ log'.ticks = 1) =>
                    status' = "running" /\ timer' = "live" /\ log'.scheduled = 1]_vars

\* A timer has fired with onTick supplied and no generator: onTick was called
\* once, no event was produced and the next timer is scheduled.
C27_Witness ==
  /\ log.op = "timer" /\ options.preset = "watch"
  /\ log.ticks = 1 /\ log.calls.onTick = 1 /\ log.gen = 0
  /\ eventCount = 0 /\ timer = "live" /\ status = "running"

\* ------------------------------------------------------------------- C28
\* The event cap is reached.
CapReached == options.maxEvents > 0 /\ eventCount >= options.maxEvents

\* stop() or pause() took effect during the operation the log l describes.
Halted(l) ==
  \E i \in 2..Len(l.statusTrace) : l.statusTrace[i] \in {"stopped", "paused"}

\* C28 as stated: after a timer-fired tick has returned, the next tick is
\* scheduled if and only if the status is Running and the cap is not reached;
\* and if stop() or pause() was called during the tick, no next tick is
\* scheduled.
C28_Original ==
  [][(log'.op = "timer" /\ log'.ticks = 1 /\ ~log'.escaped) =>
       /\ (timer' = "live") <=> (status' = "running" /\ ~CapReached')
       /\ Halted(log') => timer' # "live"]_vars

\* C28 amended: after a timer-fired tick has returned, the next tick is
\* scheduled if and only if the status is Running at that moment and the cap
\* is not reached.  stop() or pause() during the tick prevents it only while
\* the engine is left not Running: a pause() followed by resume() inside the
\* tick leaves the engine Running with the next tick scheduled.
C28_Amended ==
  [][(log'.op = "timer" /\ log'.ticks = 1 /\ ~log'.escaped) =>
       /\ (timer' = "live") <=> (status' = "running" /\ ~CapReached')
       /\ status' # "running" => (timer' = "null" /\ Halted(log'))
       /\ (Halted(log') /\ status' = "running") =>
            /\ \E i \in 2..Len(log'.statusTrace) - 1 :
                 /\ log'.statusTrace[i] = "paused"
                 /\ log'.statusTrace[i + 1] = "running"
            /\ log'.scheduled >= 1]_vars

\* onTick paused and resumed the engine during a timer-fired tick, and the
\* next tick is scheduled.
C28_Witness ==
  /\ log.op = "timer" /\ log.ticks = 1 /\ ~log.escaped
  /\ log.statusTrace = << "running", "paused", "running" >>
  /\ status = "running" /\ timer = "live"

\* ------------------------------------------------------------------- C29
\* C29: start, stop, pause and resume of the engine hand no event to the
\* state machine and leave its currentState, history and pending queue as
\* they are; the machine changes only in a tick or an injectEvent that has
\* handed it an event through processEvent, or in reset().
C29_LifecycleLeavesMachine ==
  [][/\ log'.op \in {"start", "stop", "pause", "resume"} =>
          log'.handled = << >> /\ UNCHANGED MachineVars
     /\ (log'.op \in {"tick", "timer", "injectEvent"} /\ log'.handled = << >>) =>
          UNCHANGED MachineVars
     /\ MachineVars' # MachineVars =>
          log'.op \in {"tick", "timer", "injectEvent", "reset"}]_vars

\* start() on an engine whose machine has moved on and holds a pending
\* event: both are still there.
C29_Witness ==
  /\ log.op = "start" /\ log.restarted /\ status = "running"
  /\ queue # << >> /\ Len(stateHistory) >= 2

\* ------------------------------------------------------------------- C30
\* C30 as stated: between operations currentState is the state of the last
\* stateHistory entry, after any sequence of transition, forceTransition,
\* queueEvent, processEvent, processPendingEvents and reset calls.
C30_CurrentIsLastEntry ==
  currentState = stateHistory[Len(stateHistory)].state

\* ------------------------------------------------------------------- C31
\* C31 as stated: between operations, whenever the status is Running a tick
\* timer is outstanding (the one _timer refers to, or one still scheduled).
C31_RunningHasTimer ==
  status = "running" => (timer = "live" \/ leaked > 0)

\* ------------------------------------------------------------------- C32
\* The event an operation hands to the domain handler itself, not through
\* the queue.
Direct(l) == IF l.op = "processEvent" THEN << l.e >> ELSE << >>

\* C32: every queued event is handed to the domain handler exactly once and
\* in the order of queueing: over any operation, the events that were pending
\* followed by the events queued during it are, in that order, the events the
\* handler has begun to handle through the queue followed by the events still
\* pending; this also when a handler makes a nested transition that drains
\* the rest of the queue.
C32_QueuedHandledOnceInOrder ==
  [][log'.op \in {"transition", "forceTransition", "queueEvent", "processEvent",
                  "processPendingEvents", "smReset", "canTransition"} =>
       /\ Direct(log') \o queue \o log'.enq = log'.handled \o queue'
       /\ ~log'.escaped]_vars

\* processEvent(chain) with to1 pending: the handler queued to2 and made a
\* transition, whose drain handled to1 and then to2.
C32_Witness ==
  /\ log.op = "processEvent" /\ log.handled = << "chain", "to1", "to2" >>
  /\ log.enq = << "to2" >> /\ queue = << >>

\* ------------------------------------------------------------------- C33
\* The operation the log l describes handled an event taken from the queue.
Drained(l) == Len(l.handled) > Len(Direct(l))

\* C33: queueEvent only appends the event to the pending queue, and a refused
\* transition() changes nothing: neither hands an event to the handler nor
\* touches currentState or the history.  A pending event is handled only in
\* an operation that changes the state (a successful transition or a
\* forceTransition, also one made by a handler), in reset() or in
\* processPendingEvents().
C33_NoDrainWithoutStateChange ==
  [][/\ log'.op = "queueEvent" =>
          /\ queue' = Append(queue, log'.e) /\ log'.handled = << >>
          /\ UNCHANGED << allowedTransitions, currentState, stateHistory >>
     /\ (log'.op = "transition" /\ log'.ret = "false") =>
          /\ log'.handled = << >> /\ UNCHANGED MachineVars
     /\ (log'.op \in {"transition", "forceTransition", "queueEvent", "processEvent",
                      "processPendingEvents", "smReset", "canTransition"}
           /\ Drained(log')) =>
          \/ log'.op \in {"processPendingEvents", "smReset"}
          \/ log'.changes # << >>]_vars

\* A refused transition with an event pending: the event is still pending
\* after an earlier queueEvent and nothing was handled.
C33_Witness ==
  /\ log.op = "transition" /\ log.ret = "false" /\ log.handled = << >>
  /\ queue # << >> /\ Len(stateHistory) = 1

\* ------------------------------------------------------------------- C34
\* C34: when forceTransition and reset are never used, every two consecutive
\* stateHistory entries s, s' satisfy s' in allowedTransitions[s]; so also
\* for the legal review machine, whose handlers use transition() only.
C34_HistoryFollowsTable ==
  \A i \in 1..(Len(stateHistory) - 1) :
    Listed(stateHistory[i].state, stateHistory[i + 1].state)

\* The legal machine went Initial -> FileIntake by a transition() call and
\* on to IssueSpotting when a doc_uploaded event was handled.
C34_Witness ==
  /\ allowedTransitions = LegalTransitions
  /\ log.op = "processEvent" /\ log.e = LegalEventType.DocUploaded
  /\ Len(stateHistory) = 3
  /\ stateHistory[1].state = LegalPhase.Initial
  /\ stateHistory[2].state = LegalPhase.FileIntake
  /\ stateHistory[3].state = LegalPhase.IssueSpotting

\* ------------------------------------------------------------------- C35
\* C35 as stated: process(e) calls exactly once every handler that is
\* registered when it starts and still registered when its turn comes, also
\* when a handler deregisters itself while it is invoked.  hOk is never
\* deregistered during process, so each of its registrations for the type
\* and for every type is owed one call.
C35_SelfOffSkipsNobody ==
  [][log'.op = "process" =>
       Calls(log'.delivered, "hOk", log'.e) =
         Count(handlers[log'.e], "hOk") + Count(globalHandlers, "hOk")]_vars

\* ------------------------------------------------------------------- C36
\* The number of times the status became s during the operation whose
\* status trace is trace.
Became(trace, s) == Cardinality({ i \in 2..Len(trace) : trace[i] = s })

\* C36: during any operation of the engine every status assignment is a
\* change, and the lifecycle callbacks (when supplied) are called once per
\* change and never otherwise: onStop once each time the status becomes
\* Stopped (by stop(), at the event cap, in reset()), onPause once each time
\* it becomes Paused, onStart once for a start() of an engine that is not
\* Running, and onResume once each other time it becomes Running.
C36_CallbackPerStatusChange ==
  [][log'.op \in {"start", "stop", "pause", "resume", "reset", "injectEvent",
                  "tick", "timer"} =>
       LET trace == log'.statusTrace
           calls == log'.calls
           supplied == Preset(options'.preset).callbacks
           starts == IF log'.op = "start" /\ status # "running" THEN 1 ELSE 0
           Once(name, n) == calls[name] = (IF name \in supplied THEN n ELSE 0)
       IN /\ trace[1] = status /\ trace[Len(trace)] = status'
          /\ \A i \in 2..Len(trace) : trace[i] # trace[i - 1]
          /\ Once("onStop", Became(trace, "stopped"))
          /\ Once("onPause", Became(trace, "paused"))
          /\ Once("onStart", starts)
          /\ Once("onResume", Became(trace, "running") - starts)
          /\ (log'.op \in {"stop", "pause", "resume"} /\ status' = status) =>
               calls = NoCalls]_vars

\* A timer-fired tick brought eventCount to the cap: the engine stopped
\* itself and onStop was called once.
C36_Witness ==
  /\ log.op = "timer" /\ log.statusTrace = << "running", "stopped" >>
  /\ log.calls.onStop = 1 /\ log.calls.onPause = 0
  /\ options.maxEvents > 0 /\ eventCount = options.maxEvents

\* ------------------------------------------------------------------- C37
\* C37: when the engine was started with an event cap N > 0 and events come
\* from timer-fired ticks only, eventCount never exceeds N, whatever the
\* order of start, stop, pause, resume and the firing of timers, including
\* timers the engine lost track of; and an operation counts at most one
\* event.
C37_CountWithinCap ==
  /\ [](options.maxEvents > 0 => eventCount <= options.maxEvents)
  /\ [][eventCount' <= eventCount + 1]_vars

\* The count stands at the cap, the engine stopped itself, and a timer it
\* had lost track of has just fired without counting anything.
C37_Witness ==
  /\ options.maxEvents > 0 /\ eventCount = options.maxEvents
  /\ log.op = "timer" /\ log.e = "leaked"
  /\ status = "stopped" /\ log.statusTrace = << "stopped" >>

====
